---- MODULE Spec2Model ----
\* A model of src/src/main.rs: a command-line program that splits an f32 into
\* its sign, exponent and mantissa fields (parse), turns each field into the
\* real number it stands for (decode), multiplies the three back together
\* (recalculate) and prints the comparison.
\*
\* env is what the process is started with besides its argument: whether the
\* program name is valid Unicode, and how many lines standard output takes
\* before a write to it fails.
\*
\* u32 values are bit vectors (functions 0..31 -> {0,1}); f32 values are records
\* in a canonical form, and every f32 operation rounds to nearest, ties to even.
EXTENDS Integers, Sequences, FiniteSets

VARIABLES pc, env, arg, n, sign_bits, exponent_bits, mantissa_bits,
          sign_real_num, exponent_real_num, mantissa_real_num,
          i, n_recalculated, stdout, exit_code

vars == <<pc, env, arg, n, sign_bits, exponent_bits, mantissa_bits,
          sign_real_num, exponent_real_num, mantissa_real_num,
          i, n_recalculated, stdout, exit_code>>

-----------------------------------------------------------------------------
\* Bounds of the sampled inputs.

\* Exponent fields are sampled within ExpSpan of 0, of the bias and of 255.
ExpSpan == 1

\* Mantissa fields are sampled within MantSpan of 0, of 2^22 and of 2^23 - 1.
MantSpan == 2

-----------------------------------------------------------------------------
\* Program constants.

BIAS == 127

\* The loop running over all 32 bits and one more.
MANTISSA_LOOP_END_33 == 32 + 1

\* The loop running one bit past the mantissa field.
MANTISSA_LOOP_END_24 == 23 + 1

\* for i in 0..23
MANTISSA_LOOP_END == 23

\* Exit status of a process whose main thread panicked, and of a normal return.
EXIT_PANIC == 101

EXIT_OK == 0

-----------------------------------------------------------------------------
\* The binary32 format.

\* Width of the stored mantissa field.
F32_MANT_BITS == 23

\* Exponent of the least significant bit of a subnormal (and of the smallest
\* normal number): 2^-149.
F32_MIN_EXP == -149

\* Exponent of the least significant bit of the largest finite numbers.
F32_MAX_EXP == 104

\* Exponent field of infinities and NaNs.
F32_EXP_SPECIAL == 255

Pow2(k) == 2 ^ k

Max(a, b) == IF a >= b THEN a ELSE b

Min(a, b) == IF a <= b THEN a ELSE b

\* An f32 value.  cls = "fin": the number (-1)^neg * sig * 2^exp, with
\* 2^23 <= sig < 2^24 (normal) or exp = F32_MIN_EXP and sig < 2^23 (subnormal
\* or zero).  cls = "inf": an infinity.  cls = "nan": a NaN with payload sig.
Fin(neg, sig, exp) == [cls |-> "fin", neg |-> neg, sig |-> sig, exp |-> exp]

Inf(neg) == [cls |-> "inf", neg |-> neg, sig |-> 0, exp |-> 0]

NaN(neg, payload) == [cls |-> "nan", neg |-> neg, sig |-> payload, exp |-> 0]

\* The value of a variable that has not been assigned yet.
Unset == [cls |-> "unset", neg |-> FALSE, sig |-> 0, exp |-> 0]

\* Number of bits of a positive integer.
RECURSIVE BitLen(_)
BitLen(k) == IF k = 0 THEN 0 ELSE 1 + BitLen(k \div 2)

\* Number of trailing zero bits of a positive integer.
RECURSIVE TrailingZeros(_)
TrailingZeros(k) == IF k % 2 = 1 THEN 0 ELSE 1 + TrailingZeros(k \div 2)

\* A finite value sig * 2^exp with the factors of two moved out of sig.
ReducedSig(f) == IF f.sig = 0 THEN 0 ELSE f.sig \div Pow2(TrailingZeros(f.sig))

ReducedExp(f) == IF f.sig = 0 THEN 0 ELSE f.exp + TrailingZeros(f.sig)

\* The f32 nearest to (-1)^neg * sig * 2^exp (sig < 2^31), ties to even;
\* magnitudes beyond the largest finite f32 become an infinity.
RoundF32(neg, sig, exp) ==
    IF sig = 0 THEN Fin(neg, 0, F32_MIN_EXP)
    ELSE LET len == BitLen(sig)
             te == Max(exp + len - (F32_MANT_BITS + 1), F32_MIN_EXP)
             d == te - exp
             q == IF d <= 0 THEN sig * Pow2(0 - d)
                  ELSE IF d > 30 THEN 0
                  ELSE sig \div Pow2(d)
             r == IF d <= 0 THEN 0
                  ELSE IF d > 30 THEN sig
                  ELSE sig % Pow2(d)
             up == /\ d > 0
                   /\ d <= 31
                   /\ \/ r > Pow2(d - 1)
                      \/ r = Pow2(d - 1) /\ q % 2 = 1
             q2 == IF up THEN q + 1 ELSE q
             carry == q2 = Pow2(F32_MANT_BITS + 1)
             sig3 == IF carry THEN Pow2(F32_MANT_BITS) ELSE q2
             exp3 == IF carry THEN te + 1 ELSE te
         IN IF exp3 > F32_MAX_EXP THEN Inf(neg) ELSE Fin(neg, sig3, exp3)

\* Literals of the source.
F32_ONE == RoundF32(FALSE, 1, 0)

F32_MINUS_ONE == RoundF32(TRUE, 1, 0)

F32_TWO == RoundF32(FALSE, 2, 0)

F32_TWENTY_THREE == RoundF32(FALSE, 23, 0)

RADIX == F32_TWO

\* `k as f32` for an i32 k.
I32ToF32(k) == IF k < 0 THEN RoundF32(TRUE, 0 - k, 0) ELSE RoundF32(FALSE, k, 0)

\* f32 negation.
F32Neg(a) == [a EXCEPT !.neg = ~a.neg]

\* A finite value as a signed integer times 2^e, for e at most its exponent.
SignedAt(a, e) ==
    LET mag == ReducedSig(a) * Pow2(ReducedExp(a) - e)
    IN IF a.neg THEN 0 - mag ELSE mag

\* A NaN payload with the quiet bit set.
Quieted(p) ==
    IF p >= Pow2(F32_MANT_BITS - 1) THEN p ELSE p + Pow2(F32_MANT_BITS - 1)

\* The NaNs an f32 operation on a and b may return.  The language leaves the
\* sign and the payload of a NaN result to the build: either sign, and as
\* payload the quiet NaN's or that of a NaN operand, as it is or quieted.
NaNResults(a, b) ==
    LET ops == {x \in {a, b} : x.cls = "nan"}
        payloads == {Pow2(F32_MANT_BITS - 1)}
                    \cup {x.sig : x \in ops} \cup {Quieted(x.sig) : x \in ops}
    IN {NaN(neg, p) : neg \in BOOLEAN, p \in payloads}

\* f32 addition: the set of results a + b may have, one value unless the
\* result is a NaN.
F32Add(a, b) ==
    IF a.cls = "nan" \/ b.cls = "nan" THEN NaNResults(a, b)
    ELSE IF a.cls = "inf" /\ b.cls = "inf"
         THEN IF a.neg = b.neg THEN {a} ELSE NaNResults(a, b)
    ELSE IF a.cls = "inf" THEN {a}
    ELSE IF b.cls = "inf" THEN {b}
    ELSE IF a.sig = 0 /\ b.sig = 0 THEN {Fin(a.neg /\ b.neg, 0, F32_MIN_EXP)}
    ELSE IF a.sig = 0 THEN {b}
    ELSE IF b.sig = 0 THEN {a}
    ELSE LET e == Min(ReducedExp(a), ReducedExp(b))
             s == SignedAt(a, e) + SignedAt(b, e)
         IN IF s < 0 THEN {RoundF32(TRUE, 0 - s, e)} ELSE {RoundF32(FALSE, s, e)}

\* f32 subtraction: the set of results a - b may have.
F32Sub(a, b) == F32Add(a, F32Neg(b))

\* f32 multiplication: the set of results a * b may have, one value unless
\* the result is a NaN.
F32Mul(a, b) ==
    LET neg == a.neg # b.neg
    IN IF a.cls = "nan" \/ b.cls = "nan" THEN NaNResults(a, b)
       ELSE IF a.cls = "inf" \/ b.cls = "inf"
            THEN IF (a.cls = "fin" /\ a.sig = 0) \/ (b.cls = "fin" /\ b.sig = 0)
                 THEN NaNResults(a, b)
                 ELSE {Inf(neg)}
       ELSE {RoundF32(neg, ReducedSig(a) * ReducedSig(b),
                      ReducedExp(a) + ReducedExp(b))}

\* The integer an integer-valued finite f32 stands for.
F32ToInt(a) ==
    LET mag == IF ReducedExp(a) >= 0 THEN ReducedSig(a) * Pow2(ReducedExp(a))
               ELSE ReducedSig(a) \div Pow2(0 - ReducedExp(a))
    IN IF a.neg THEN 0 - mag ELSE mag

\* x.powf(y) where |x| is a power of two and y is an integer-valued f32, the
\* only calls the program makes: (-1.0).powf(0 or 1), 2.0.powf(k).
Powf(x, y) ==
    LET k == F32ToInt(y)
        a == ReducedExp(x)
    IN RoundF32(x.neg /\ k % 2 = 1, 1, a * k)

\* A non-zero f32 below the smallest normal number.
IsSubnormalValue(f) == f.cls = "fin" /\ f.sig > 0 /\ f.sig < Pow2(F32_MANT_BITS)

\* f32 ==: a NaN equals nothing, +0 equals -0.
F32Eq(a, b) ==
    /\ a.cls # "nan"
    /\ b.cls # "nan"
    /\ \/ a = b
       \/ a.cls = "fin" /\ b.cls = "fin" /\ a.sig = 0 /\ b.sig = 0

\* f32 <.
F32Lt(a, b) ==
    /\ a.cls # "nan"
    /\ b.cls # "nan"
    /\ ~F32Eq(a, b)
    /\ IF a.neg # b.neg THEN a.neg
       ELSE LET less == IF a.cls = "inf" THEN FALSE
                        ELSE IF b.cls = "inf" THEN TRUE
                        ELSE a.exp < b.exp \/ (a.exp = b.exp /\ a.sig < b.sig)
                more == IF b.cls = "inf" THEN FALSE
                        ELSE IF a.cls = "inf" THEN TRUE
                        ELSE a.exp > b.exp \/ (a.exp = b.exp /\ a.sig > b.sig)
            IN IF a.neg THEN more ELSE less

F32_ZERO == Fin(FALSE, 0, F32_MIN_EXP)

-----------------------------------------------------------------------------
\* u32 values and their operators.

BitIdx == 0 .. 31

\* The u32 of a natural number below 2^31.
U32(k) == [b \in BitIdx |-> IF b = 31 THEN 0 ELSE (k \div Pow2(b)) % 2]

\* a >> k.
Shr(a, k) == [b \in BitIdx |-> IF b + k <= 31 THEN a[b + k] ELSE 0]

\* a << k.
Shl(a, k) == [b \in BitIdx |-> IF b - k >= 0 THEN a[b - k] ELSE 0]

\* a & b.
BitAnd(a, b) == [x \in BitIdx |-> a[x] * b[x]]

\* The natural number of the low `w` bits of a u32, w <= 31.
RECURSIVE LowNat(_, _)
LowNat(a, w) == IF w = 0 THEN 0 ELSE a[w - 1] * Pow2(w - 1) + LowNat(a, w - 1)

\* `a as i32`: the two's complement reading of the same 32 bits.
AsI32(a) == IF a[31] = 1 THEN LowNat(a, 31) - 1073741824 - 1073741824
            ELSE LowNat(a, 31)

\* `a as f32` for a u32 below 2^31 (the fields parse returns are).
U32ToF32(a) == RoundF32(FALSE, LowNat(a, 31), 0)

\* f32::to_bits: the bit pattern of an f32.
ToBitsSign(f) == IF f.neg THEN 1 ELSE 0

ToBitsExponent(f) ==
    IF f.cls = "fin"
    THEN IF f.sig < Pow2(F32_MANT_BITS) THEN 0 ELSE f.exp - F32_MIN_EXP + 1
    ELSE F32_EXP_SPECIAL

ToBitsMantissa(f) ==
    IF f.cls = "fin"
    THEN IF f.sig < Pow2(F32_MANT_BITS) THEN f.sig ELSE f.sig - Pow2(F32_MANT_BITS)
    ELSE f.sig

to_bits(f) ==
    [b \in BitIdx |->
        IF b = 31 THEN ToBitsSign(f)
        ELSE IF b >= F32_MANT_BITS
             THEN (ToBitsExponent(f) \div Pow2(b - F32_MANT_BITS)) % 2
        ELSE (ToBitsMantissa(f) \div Pow2(b)) % 2]

-----------------------------------------------------------------------------
\* The functions of the program.

MASK_ONE == 1

MASK_EXPONENT == 255

MASK_MANTISSA == 8388607

SHIFT_SIGN == 31

SHIFT_EXPONENT == 23

\* parse_sign with the shift one short: bit 30 instead of bit 31.
parse_signShift30(x) == BitAnd(Shr(to_bits(x), SHIFT_SIGN - 1), U32(MASK_ONE))

\* parse: the three fields of n's bit pattern.
parse_sign(x) == BitAnd(Shr(to_bits(x), SHIFT_SIGN), U32(MASK_ONE))

parse_exponent(x) == BitAnd(Shr(to_bits(x), SHIFT_EXPONENT), U32(MASK_EXPONENT))

\* parse_mantissa with a mask one bit short (0x3fffff).
parse_mantissaNarrow(x) == BitAnd(to_bits(x), U32(4194303))

parse_mantissa(x) == BitAnd(to_bits(x), U32(MASK_MANTISSA))

parse(x) == <<parse_sign(x), parse_exponent(x), parse_mantissa(x)>>

\* decode, sign: (-1.0_f32).powf(sign_bits as f32).
decode_sign(s) == Powf(F32_MINUS_ONE, U32ToF32(s))

\* decode_exponent with a subnormal result flushed to zero.
decode_exponentFlush(k) ==
    IF IsSubnormalValue(Powf(RADIX, I32ToF32(k))) THEN F32_ZERO
    ELSE Powf(RADIX, I32ToF32(k))

\* decode_exponent with the bias off by one.
decode_exponentOff(k) == Powf(RADIX, I32ToF32(k - 1))

\* decode, exponent: RADIX.powf(k as f32) for the unbiased exponent k.
decode_exponent(k) == Powf(RADIX, I32ToF32(k))

\* weight with the exponent off by one: 2^(i - 22).
weightOffByOne(idx) ==
    {Powf(F32_TWO, d) : d \in F32Sub(I32ToF32(idx), RoundF32(FALSE, 22, 0))}

\* decode, mantissa loop: 2_f32.powf(i as f32 - 23.0), as the set of its
\* results (one value: the difference of two integers is no NaN).
weight(idx) ==
    {Powf(F32_TWO, d) : d \in F32Sub(I32ToF32(idx), F32_TWENTY_THREE)}

\* decode, mantissa loop: mantissa_bits & (1 << i), for an in-range shift.
one_at_bit_i(m, idx) == BitAnd(m, Shl(U32(1), idx))

\* recalculate without the sign.
recalculateNoSign(s, e, m) == F32Mul(e, m)

\* recalculate: sign * exponent * mantissa, multiplied left to right, as the
\* set of its results (one value unless the product is a NaN).
recalculate(s, e, m) == UNION {F32Mul(p, m) : p \in F32Mul(s, e)}

\* Display of an f32: the shortest decimal that reads back as the same value,
\* so the value itself; every NaN prints as the same text.
Display(f) == IF f.cls = "nan" THEN NaN(FALSE, 0) ELSE f

\* Number of significant bits of a u32.
RECURSIVE U32Len(_, _)
U32Len(a, w) == IF w = 0 THEN 0 ELSE IF a[w - 1] = 1 THEN w ELSE U32Len(a, w - 1)

\* {:0wb}: the binary digits of a u32, most significant first, zero-padded to
\* at least w digits.
Binary(a, w) ==
    LET len == Max(w, U32Len(a, 32))
    IN [k \in 1 .. len |-> a[len - k]]

-----------------------------------------------------------------------------
\* Inputs.

ExpFields ==
    {e \in 0 .. F32_EXP_SPECIAL :
        \/ e <= ExpSpan
        \/ (e >= BIAS - ExpSpan /\ e <= BIAS + ExpSpan)
        \/ e >= F32_EXP_SPECIAL - ExpSpan}

MantFields ==
    (0 .. MantSpan)
    \cup ((Pow2(22) - MantSpan) .. (Pow2(22) + MantSpan))
    \cup ((Pow2(23) - 1 - MantSpan) .. (Pow2(23) - 1))
    \cup {Pow2(k) : k \in 0 .. 22}
    \cup {5592405, 2796202}

\* The f32 whose bit pattern has the fields s, e, m.
F32FromFields(s, e, m) ==
    IF e = F32_EXP_SPECIAL
    THEN IF m = 0 THEN Inf(s = 1) ELSE NaN(s = 1, m)
    ELSE IF e = 0 THEN Fin(s = 1, m, F32_MIN_EXP)
    ELSE Fin(s = 1, Pow2(F32_MANT_BITS) + m, e - 1 + F32_MIN_EXP)

\* Every sampled f32, NaNs of any payload included.
AllValues == {F32FromFields(s, e, m) : s \in 0 .. 1, e \in ExpFields, m \in MantFields}

\* The values str::parse::<f32> can return: every finite f32, the infinities,
\* and the NaN of "nan" and "-nan" (the quiet NaN, with either sign).
ParsableValues ==
    {f \in AllValues : f.cls = "nan" => f.sig = Pow2(F32_MANT_BITS - 1)}

\* The command line after the program name: no argument, an argument that is
\* not valid Unicode, an argument that is not a float, or an argument that
\* reads as the f32 val.
Args ==
    {[kind |-> "missing", val |-> Unset],
     [kind |-> "not_unicode", val |-> Unset],
     [kind |-> "invalid", val |-> Unset]}
    \cup {[kind |-> "float", val |-> f] : f \in ParsableValues}

\* The five lines of output, in order.
OUTPUT_LINES == 5

\* A Unicode program name and a standard output that takes every line.
GoodEnv == [name_unicode |-> TRUE, stdout_lines |-> OUTPUT_LINES]

\* The other environments: a program name that is not Unicode, or a standard
\* output (a full device, a pipe whose reader exits) that fails after taking
\* fewer than five lines.
BadEnvs ==
    {[name_unicode |-> FALSE, stdout_lines |-> OUTPUT_LINES]}
    \cup {[name_unicode |-> TRUE, stdout_lines |-> k] : k \in 0 .. OUTPUT_LINES - 1}

\* The arguments sampled in the other environments: those that are no float,
\* and the floats with mantissa field 0.
BadEnvArgs ==
    {a \in Args :
        a.kind = "float" =>
            a.val \in {F32FromFields(s, e, 0) : s \in 0 .. 1, e \in ExpFields}}

NoArg == [kind |-> "none", val |-> Unset]

\* Arguments of decode with bits set above the mantissa field.
HighBits == {{23}, {31}, 23 .. 31}

WithHighBits(a, hs) == [b \in BitIdx |-> IF b \in hs THEN 1 ELSE a[b]]

WildMantissas ==
    {WithHighBits(U32(m), hs) :
        m \in (0 .. MantSpan) \cup ((Pow2(23) - 1 - MantSpan) .. (Pow2(23) - 1)),
        hs \in HighBits}

-----------------------------------------------------------------------------
\* The program.

Init ==
    /\ pc = "name"
    /\ \/ env = GoodEnv /\ arg \in Args
       \/ env \in BadEnvs /\ arg \in BadEnvArgs
    /\ n = Unset
    /\ sign_bits = U32(0)
    /\ exponent_bits = U32(0)
    /\ mantissa_bits = U32(0)
    /\ sign_real_num = Unset
    /\ exponent_real_num = Unset
    /\ mantissa_real_num = Unset
    /\ i = 0
    /\ n_recalculated = Unset
    /\ stdout = <<>>
    /\ exit_code = -1

\* A panic: the message goes to standard error and the process ends.
Panic ==
    /\ pc' = "done"
    /\ exit_code' = EXIT_PANIC

\* args.next(), for the program name: Args::next panics on an argument that
\* is not valid Unicode.
SkipName ==
    /\ pc = "name"
    /\ IF env.name_unicode
       THEN pc' = "args" /\ UNCHANGED exit_code
       ELSE Panic
    /\ UNCHANGED <<env, arg, n, sign_bits, exponent_bits, mantissa_bits,
                   sign_real_num, exponent_real_num, mantissa_real_num, i,
                   n_recalculated, stdout>>

\* args.next().expect(..): Args::next panics on an argument that is not valid
\* Unicode, expect on a missing one.
ReadArg ==
    /\ pc = "args"
    /\ IF arg.kind \in {"missing", "not_unicode"}
       THEN Panic
       ELSE pc' = "parse_arg" /\ UNCHANGED exit_code
    /\ UNCHANGED <<env, arg, n, sign_bits, exponent_bits, mantissa_bits, sign_real_num,
                   exponent_real_num, mantissa_real_num, i, n_recalculated, stdout>>

\* ParseArg falling back to 0.0 instead of panicking.
ParseArgDefault ==
    /\ pc = "parse_arg"
    /\ pc' = "parse"
    /\ n' = IF arg.kind = "float" THEN arg.val ELSE Fin(FALSE, 0, F32_MIN_EXP)
    /\ UNCHANGED <<env, arg, sign_bits, exponent_bits, mantissa_bits, sign_real_num,
                   exponent_real_num, mantissa_real_num, i, n_recalculated,
                   stdout, exit_code>>

\* n.parse::<f32>().expect(..)
ParseArg ==
    /\ pc = "parse_arg"
    /\ IF arg.kind = "float"
       THEN pc' = "parse" /\ n' = arg.val /\ UNCHANGED exit_code
       ELSE Panic /\ UNCHANGED n
    /\ UNCHANGED <<env, arg, sign_bits, exponent_bits, mantissa_bits, sign_real_num,
                   exponent_real_num, mantissa_real_num, i, n_recalculated, stdout>>

\* let (sign_bits, exponent_bits, mantissa_bits) = parse(n)
Parse ==
    /\ pc = "parse"
    /\ sign_bits' = parse(n)[1]
    /\ exponent_bits' = parse(n)[2]
    /\ mantissa_bits' = parse(n)[3]
    /\ pc' = "decode_sign"
    /\ UNCHANGED <<env, arg, n, sign_real_num, exponent_real_num, mantissa_real_num,
                   i, n_recalculated, stdout, exit_code>>

\* decode: let sign_real_num = ..
DecodeSign ==
    /\ pc = "decode_sign"
    /\ sign_real_num' = decode_sign(sign_bits)
    /\ pc' = "decode_exponent"
    /\ UNCHANGED <<env, arg, n, sign_bits, exponent_bits, mantissa_bits,
                   exponent_real_num, mantissa_real_num, i, n_recalculated,
                   stdout, exit_code>>

I32_MIN == -2147483647 - 1

\* decode: let exponent_real_num = (exponent_bits as i32) - BIAS, then the
\* power.  A subtraction below i32::MIN panics in a build with overflow checks
\* and wraps in one without.
DecodeExponent ==
    /\ pc = "decode_exponent"
    /\ LET e == AsI32(exponent_bits)
       IN IF e >= I32_MIN + BIAS
          THEN /\ exponent_real_num' = decode_exponent(e - BIAS)
               /\ pc' = "decode_mantissa"
               /\ UNCHANGED exit_code
          ELSE \/ Panic /\ UNCHANGED exponent_real_num
               \/ /\ exponent_real_num' =
                        decode_exponent((e - I32_MIN) + (2147483647 - BIAS) + 1)
                  /\ pc' = "decode_mantissa"
                  /\ UNCHANGED exit_code
    /\ UNCHANGED <<env, arg, n, sign_bits, exponent_bits, mantissa_bits, sign_real_num,
                   mantissa_real_num, i, n_recalculated, stdout>>

\* DecodeMantissaInit without the implicit leading 1.
DecodeMantissaInitZero ==
    /\ pc = "decode_mantissa"
    /\ mantissa_real_num' = Fin(FALSE, 0, F32_MIN_EXP)
    /\ i' = 0
    /\ pc' = "decode_loop"
    /\ UNCHANGED <<env, arg, n, sign_bits, exponent_bits, mantissa_bits, sign_real_num,
                   exponent_real_num, n_recalculated, stdout, exit_code>>

\* decode: let mut mantissa_real_num: f32 = 1.0, and the loop's first index.
DecodeMantissaInit ==
    /\ pc = "decode_mantissa"
    /\ mantissa_real_num' = F32_ONE
    /\ i' = 0
    /\ pc' = "decode_loop"
    /\ UNCHANGED <<env, arg, n, sign_bits, exponent_bits, mantissa_bits, sign_real_num,
                   exponent_real_num, n_recalculated, stdout, exit_code>>

\* decode: one iteration of for i in 0..23.  A shift by 32 or more panics in
\* a build with overflow checks and shifts by i mod 32 in one without.
DecodeMantissaStep ==
    /\ pc = "decode_loop"
    /\ i < MANTISSA_LOOP_END
    /\ \/ /\ i > 31
          /\ Panic
          /\ UNCHANGED <<mantissa_real_num, i>>
       \/ /\ mantissa_real_num' \in
                IF one_at_bit_i(mantissa_bits, i % 32) # U32(0)
                THEN UNION {F32Add(mantissa_real_num, w) : w \in weight(i)}
                ELSE {mantissa_real_num}
          /\ i' = i + 1
          /\ UNCHANGED <<pc, exit_code>>
    /\ UNCHANGED <<env, arg, n, sign_bits, exponent_bits, mantissa_bits, sign_real_num,
                   exponent_real_num, n_recalculated, stdout>>

\* decode: the loop is over, the triple is returned.
DecodeReturn ==
    /\ pc = "decode_loop"
    /\ i >= MANTISSA_LOOP_END
    /\ pc' = "recalculate"
    /\ UNCHANGED <<env, arg, n, sign_bits, exponent_bits, mantissa_bits, sign_real_num,
                   exponent_real_num, mantissa_real_num, i, n_recalculated,
                   stdout, exit_code>>

\* let n_recalculated = recalculate(..)
Recalculate ==
    /\ pc = "recalculate"
    /\ n_recalculated' \in
          recalculate(sign_real_num, exponent_real_num, mantissa_real_num)
    /\ pc' = "print"
    /\ UNCHANGED <<env, arg, n, sign_bits, exponent_bits, mantissa_bits, sign_real_num,
                   exponent_real_num, mantissa_real_num, i, stdout, exit_code>>

OutputLine(k) ==
    IF k = 1 THEN <<"recalculated", Display(n), Display(n_recalculated)>>
    ELSE IF k = 2 THEN <<"header">>
    ELSE IF k = 3 THEN <<"sign", Binary(sign_bits, 1), Display(sign_real_num)>>
    ELSE IF k = 4 THEN <<"exponent", Binary(exponent_bits, 8), Display(exponent_real_num)>>
    ELSE <<"mantissa", Binary(mantissa_bits, 23), Display(mantissa_real_num)>>

\* One println!: the line is written, or the write fails and println! panics.
Println ==
    /\ pc = "print"
    /\ Len(stdout) < OUTPUT_LINES
    /\ IF Len(stdout) < env.stdout_lines
       THEN /\ stdout' = Append(stdout, OutputLine(Len(stdout) + 1))
            /\ UNCHANGED <<pc, exit_code>>
       ELSE Panic /\ UNCHANGED stdout
    /\ UNCHANGED <<env, arg, n, sign_bits, exponent_bits, mantissa_bits,
                   sign_real_num, exponent_real_num, mantissa_real_num, i,
                   n_recalculated>>

\* main returns.
Return ==
    /\ pc = "print"
    /\ Len(stdout) = OUTPUT_LINES
    /\ pc' = "done"
    /\ exit_code' = EXIT_OK
    /\ UNCHANGED <<env, arg, n, sign_bits, exponent_bits, mantissa_bits, sign_real_num,
                   exponent_real_num, mantissa_real_num, i, n_recalculated, stdout>>

Next ==
    \/ SkipName
    \/ ReadArg
    \/ ParseArg
    \/ Parse
    \/ DecodeSign
    \/ DecodeExponent
    \/ DecodeMantissaInit
    \/ DecodeMantissaStep
    \/ DecodeReturn
    \/ Recalculate
    \/ Println
    \/ Return

Spec == Init /\ [][Next]_vars

-----------------------------------------------------------------------------
\* parse, decode and recalculate as functions: parse applied to every sampled
\* f32 (NaNs of any payload included), and decode applied to arguments whose
\* mantissa word has bits set above the field.

InitFn ==
    /\ env = GoodEnv
    /\ arg = NoArg
    /\ sign_real_num = Unset
    /\ exponent_real_num = Unset
    /\ mantissa_real_num = Unset
    /\ i = 0
    /\ n_recalculated = Unset
    /\ stdout = <<>>
    /\ exit_code = -1
    /\ \/ /\ pc = "parse"
          /\ n \in AllValues
          /\ sign_bits = U32(0)
          /\ exponent_bits = U32(0)
          /\ mantissa_bits = U32(0)
       \/ /\ pc = "decode_sign"
          /\ n = Unset
          /\ sign_bits \in {U32(0), U32(1)}
          /\ exponent_bits \in {U32(e) : e \in ExpFields}
          /\ mantissa_bits \in WildMantissas

NextFn ==
    \/ Parse
    \/ DecodeSign
    \/ DecodeExponent
    \/ DecodeMantissaInit
    \/ DecodeMantissaStep
    \/ DecodeReturn
    \/ Recalculate

SpecFn == InitFn /\ [][NextFn]_vars

-----------------------------------------------------------------------------
\* Where the program is.

Succeeded == pc = "done" /\ exit_code = EXIT_OK

\* parse has returned (for an f32 that was given to it).
AfterParse ==
    /\ n # Unset
    /\ \/ pc \in {"decode_sign", "decode_exponent", "decode_mantissa",
                  "decode_loop", "recalculate", "print"}
       \/ Succeeded

\* The exponent has been decoded.
AfterDecodeExponent ==
    \/ pc \in {"decode_mantissa", "decode_loop", "recalculate", "print"}
    \/ Succeeded

\* decode has returned.
AfterDecode == pc \in {"recalculate", "print"} \/ Succeeded

\* recalculate has returned.
AfterRecalculate == pc = "print" \/ Succeeded

\* Classes of f32 values.
IsNormal(f) == f.cls = "fin" /\ f.sig >= Pow2(F32_MANT_BITS)

IsZeroOrSubnormal(f) == f.cls = "fin" /\ f.sig < Pow2(F32_MANT_BITS)

IsNegativeZero(f) == f.cls = "fin" /\ f.sig = 0 /\ f.neg

\* The number a bit vector's bits lo..hi stand for, bit lo weighing 1.
RECURSIVE FieldValue(_, _, _)
FieldValue(a, lo, hi) ==
    IF hi < lo THEN 0 ELSE a[lo] + 2 * FieldValue(a, lo + 1, hi)

\* No bit at or above index w is set.
FitsIn(a, w) == \A b \in BitIdx : b >= w => a[b] = 0

-----------------------------------------------------------------------------
\* C1.  Round trip: for every normal f32 (exponent field 1..254, either
\* sign, any mantissa) the recalculated value equals the input.
RoundTripNormal ==
    (AfterRecalculate /\ IsNormal(n)) => F32Eq(n_recalculated, n)

\* A negative normal input with an odd mantissa field has been recalculated.
RoundTripNormalWitness ==
    /\ AfterRecalculate
    /\ IsNormal(n)
    /\ n.neg
    /\ n.sig % 2 = 1
    /\ n_recalculated = n

\* C2.  Bit reconstruction: the sign field is 1 bit wide, the exponent field
\* 8 bits, the mantissa field 23 bits, and sign, exponent, mantissa put side by
\* side in that order are the bit pattern of the input.
BitReconstruction ==
    AfterParse =>
        /\ FitsIn(sign_bits, 1)
        /\ FitsIn(exponent_bits, 8)
        /\ FitsIn(mantissa_bits, 23)
        /\ to_bits(n) = [b \in BitIdx |->
                            IF b = 31 THEN sign_bits[0]
                            ELSE IF b >= 23 THEN exponent_bits[b - 23]
                            ELSE mantissa_bits[b]]

\* A negative input whose exponent and mantissa fields both have their top and
\* bottom bits set has been parsed.
BitReconstructionWitness ==
    /\ AfterParse
    /\ sign_bits[0] = 1
    /\ exponent_bits[7] = 1
    /\ exponent_bits[0] = 1
    /\ mantissa_bits[22] = 1
    /\ mantissa_bits[0] = 1

\* C3, as stated.  Sign isolation: the sign field is 1 if and only if the
\* input is below zero or is -0, and 0 otherwise.
SignIsolation ==
    AfterParse =>
        IF F32Lt(n, F32_ZERO) \/ IsNegativeZero(n)
        THEN sign_bits = U32(1)
        ELSE sign_bits = U32(0)

\* C3, amended.  The sign field is bit 31 of the input's pattern: for an input
\* that is not a NaN it is 1 if and only if the input is below zero or is -0,
\* and 0 otherwise; for a NaN it is 1 if and only if the NaN carries the sign
\* bit, although no NaN is below zero.
SignIsolationNonNaN ==
    AfterParse =>
        /\ sign_bits \in {U32(0), U32(1)}
        /\ n.cls # "nan" =>
              (sign_bits = U32(1) <=> (F32Lt(n, F32_ZERO) \/ IsNegativeZero(n)))
        /\ n.cls = "nan" => (sign_bits = U32(1) <=> n.neg)

\* -0 has been parsed and its sign field is 1.
SignIsolationWitness ==
    /\ AfterParse
    /\ IsNegativeZero(n)
    /\ sign_bits = U32(1)

\* C4.  Mantissa range: for every normal input the decoded mantissa value is
\* at least 1.0 and below 2.0.
MantissaRange ==
    (AfterDecode /\ IsNormal(n)) =>
        /\ ~F32Lt(mantissa_real_num, F32_ONE)
        /\ F32Lt(mantissa_real_num, F32_TWO)
        /\ mantissa_real_num.cls = "fin"

\* The mantissa field of all ones has been decoded, to 2 - 2^-23.
MantissaRangeWitness ==
    /\ AfterDecode
    /\ IsNormal(n)
    /\ mantissa_bits = U32(MASK_MANTISSA)
    /\ mantissa_real_num = Fin(FALSE, Pow2(24) - 1, -23)

\* C5, as stated.  Startup errors: with no argument, or one that is not a
\* float, nothing is ever written to standard output and the process ends with
\* a non-zero status; with an argument that is a float the process ends with
\* status 0 after the five lines of output.
StartupErrors ==
    /\ arg.kind \in {"missing", "invalid"} =>
          /\ stdout = <<>>
          /\ pc = "done" => exit_code > 0
    /\ arg.kind = "float" =>
          (pc = "done" => (exit_code = 0 /\ Len(stdout) = OUTPUT_LINES))

\* C5, amended.  With no argument, or one that is not valid Unicode or not a
\* float, nothing is ever written to standard output and the process ends with
\* status 101.  With an argument that is a float the process ends with status
\* 0 after the five lines of output when the program name is valid Unicode and
\* every write to standard output succeeds; it ends with status 101 and no
\* output when the program name is not valid Unicode, and with status 101
\* after the lines already written when a write to standard output fails.
\* Output always follows recalculate.
StartupErrorsEnv ==
    /\ arg.kind \in {"missing", "not_unicode", "invalid"} =>
          /\ stdout = <<>>
          /\ pc = "done" => exit_code = EXIT_PANIC
          /\ pc \in {"name", "args", "parse_arg", "done"}
    /\ (arg.kind = "float" /\ env = GoodEnv) =>
          (pc = "done" => (exit_code = 0 /\ Len(stdout) = OUTPUT_LINES))
    /\ (arg.kind = "float" /\ ~env.name_unicode) =>
          /\ stdout = <<>>
          /\ pc \in {"name", "done"}
          /\ pc = "done" => exit_code = EXIT_PANIC
    /\ (arg.kind = "float" /\ env.name_unicode /\ env.stdout_lines < OUTPUT_LINES) =>
          /\ Len(stdout) <= env.stdout_lines
          /\ pc = "done" => (exit_code = EXIT_PANIC /\ Len(stdout) = env.stdout_lines)
    /\ Len(stdout) > 0 => n_recalculated # Unset

\* An argument that is not a float has ended the process with a non-zero
\* status and no output.
StartupErrorsWitness ==
    /\ pc = "done"
    /\ arg.kind = "invalid"
    /\ exit_code = EXIT_PANIC
    /\ stdout = <<>>

\* C6.  Zero input: for +0.0 the fields are sign 0, exponent 0, mantissa 0, the
\* decoded exponent value is 2^-127, and the recalculated value is not equal
\* to 0.0.
ZeroInput ==
    (AfterRecalculate /\ n = F32_ZERO) =>
        /\ sign_bits = U32(0)
        /\ exponent_bits = U32(0)
        /\ mantissa_bits = U32(0)
        /\ exponent_real_num = Fin(FALSE, Pow2(22), -149)
        /\ ~F32Eq(n_recalculated, F32_ZERO)

\* +0.0 has been recalculated, to 2^-127.
ZeroInputWitness ==
    /\ AfterRecalculate
    /\ n = F32_ZERO
    /\ n_recalculated = Fin(FALSE, Pow2(22), -149)

\* C7.  Totality: from parse on nothing panics, whatever the bit pattern:
\* the process never ends in a panic, the loop index stays within 0..23 (so
\* every shift is by less than 32), the unbiased exponent stays within
\* -127..128, and the loop is left after exactly 23 iterations.
Totality ==
    /\ pc # "done"
    /\ exit_code = -1
    /\ i \in 0 .. 23
    /\ AfterDecode => i = 23
    /\ pc \in {"parse", "decode_sign", "decode_exponent", "decode_mantissa"} => i = 0
    /\ AfterParse => (AsI32(exponent_bits) - BIAS) \in -127 .. 128

\* A NaN whose payload is not the quiet NaN's has gone through parse, decode
\* and recalculate.
TotalityWitness ==
    /\ pc = "print"
    /\ n.cls = "nan"
    /\ n.sig = 1
    /\ i = 23
    /\ n_recalculated # Unset

\* C8.  Mantissa decoding: decode returns 1 plus the sum of 2^(b-23) over the
\* bits b in 0..22 set in its mantissa argument, that is 1 + m/2^23 for the
\* field m; bits of the argument above index 22 add nothing.
MantissaDecoding ==
    AfterDecode =>
        mantissa_real_num =
            Fin(FALSE, Pow2(23) + FieldValue(mantissa_bits, 0, 22), -23)

\* decode has returned for a mantissa argument with bits 0, 22 and 31 set.
MantissaDecodingWitness ==
    /\ AfterDecode
    /\ mantissa_bits[0] = 1
    /\ mantissa_bits[22] = 1
    /\ mantissa_bits[31] = 1
    /\ mantissa_real_num.sig = Pow2(23) + FieldValue(mantissa_bits, 0, 22)

\* C9, as stated.  Exponent decoding: for every exponent field e in 0..255 the
\* decoded exponent value is the number 2^(e - 127).
ExponentDecoding ==
    AfterDecodeExponent =>
        /\ exponent_real_num.cls = "fin"
        /\ ReducedSig(exponent_real_num) = 1
        /\ ReducedExp(exponent_real_num) = FieldValue(exponent_bits, 0, 7) - 127

\* C9, amended.  The signed exponent e - 127 lies in -127..128 and the decoded
\* exponent value is the f32 result of raising 2 to it, by the same formula for
\* every e: the number 2^(e - 127) for e in 0..254 (2^-127, for e = 0, being
\* subnormal), and +infinity for e = 255, as 2^128 is beyond the f32 range.
ExponentDecodingF32 ==
    AfterDecodeExponent =>
        LET e == FieldValue(exponent_bits, 0, 31)
        IN /\ e - 127 \in -127 .. 128
           /\ e = 0 => exponent_real_num = Fin(FALSE, Pow2(22), -149)
           /\ e \in 1 .. 254 => exponent_real_num = Fin(FALSE, Pow2(23), e - 127 - 23)
           /\ e = 255 => exponent_real_num = Inf(FALSE)

\* The exponent field 255 has been decoded, to +infinity.
ExponentDecodingWitness ==
    /\ AfterDecodeExponent
    /\ exponent_bits = U32(255)
    /\ exponent_real_num = Inf(FALSE)

\* C10, as stated.  For an input whose exponent field is 0 (a zero or a
\* subnormal with mantissa field m) the recalculated value is the number
\* sign * 2^-127 * (1 + m/2^23), that is sign * (2^23 + m) * 2^-150, and is not
\* equal to the input.
ZeroExponentRoundTrip ==
    (AfterRecalculate /\ IsZeroOrSubnormal(n)) =>
        /\ n_recalculated.cls = "fin"
        /\ n_recalculated.neg = n.neg
        /\ n_recalculated.exp >= -150
        /\ n_recalculated.sig * Pow2(n_recalculated.exp + 150) = Pow2(23) + n.sig
        /\ ~F32Eq(n_recalculated, n)

\* Half of k, rounded to the nearest integer, ties to the even one.
HalfToEven(k) ==
    LET h == k \div 2
    IN IF k % 2 = 0 THEN h ELSE IF h % 2 = 1 THEN h + 1 ELSE h

\* C10, amended.  For an input whose exponent field is 0 the recalculated
\* value is sign * 2^-127 * (1 + m/2^23) rounded to f32, that is to the nearest
\* multiple of 2^-149, ties to even (the product itself when m is even), and
\* is not equal to the input.
ZeroExponentRoundTripF32 ==
    (AfterRecalculate /\ IsZeroOrSubnormal(n)) =>
        /\ n_recalculated = Fin(n.neg, HalfToEven(Pow2(23) + n.sig), -149)
        /\ ~F32Eq(n_recalculated, n)

\* The negative subnormal with the largest mantissa field has been
\* recalculated, to -2^-126.
ZeroExponentRoundTripWitness ==
    /\ AfterRecalculate
    /\ n = Fin(TRUE, Pow2(23) - 1, -149)
    /\ n_recalculated = Fin(TRUE, Pow2(23), -149)

====
